---- MODULE Spec2Model ----
(***************************************************************************)
(* KTX1 texture loader factory                                             *)
(* (IGLU/texture_loader/ktx1/TextureLoaderFactory.cpp).                    *)
(*                                                                         *)
(* The factory recognises a KTX1 header (canCreateInternal), lays out the  *)
(* mip levels of the buffer (tryCreateInternal) and builds a TextureLoader *)
(* whose spans can be uploaded (uploadInternal) or copied out              *)
(* (loadToExternalMemoryInternal).                                         *)
(*                                                                         *)
(* Byte counts.  The code computes with uint32_t and size_t.  TLC's        *)
(* integers stop at 2^31 - 1, so a byte count n is the pair <<hi, lo>>     *)
(* with n = hi * 2^16 + lo and 0 <= lo < 2^16.  A uint32_t has hi < 2^16;  *)
(* a size_t keeps the whole hi.  ToU32 is static_cast<uint32_t>.           *)
(***************************************************************************)
EXTENDS Integers, Sequences, FiniteSets, TLC

VARIABLES reader, recognized, created, uploadLog, copyLog, calls

vars == <<reader, recognized, created, uploadLog, copyLog, calls>>

(***************************************************************************)
(* Bounds of the model.                                                    *)
(***************************************************************************)
MaxMipmapLevels == 3
MaxCalls == 2

(***************************************************************************)
(* uint32_t / size_t arithmetic.                                           *)
(***************************************************************************)
Base == 2 ^ 16

BigOf(n) == <<n \div Base, n % Base>>

BigAdd(a, b) == <<a[1] + b[1] + ((a[2] + b[2]) \div Base), (a[2] + b[2]) % Base>>

\* a * k for a small factor k (k <= 2^15 keeps every product inside TLC's integers)
BigMul(a, k) == <<a[1] * k + ((a[2] * k) \div Base), (a[2] * k) % Base>>

BigLess(a, b) == a[1] < b[1] \/ (a[1] = b[1] /\ a[2] < b[2])

BigLeq(a, b) == a = b \/ BigLess(a, b)

ToU32(a) == <<a[1] % Base, a[2]>>

U32Add(a, b) == ToU32(BigAdd(a, b))

Max(a, b) == IF a >= b THEN a ELSE b

Min(a, b) == IF a <= b THEN a ELSE b

(***************************************************************************)
(* Header.h: the fixed header is the 12-byte identifier and 13 words.      *)
(***************************************************************************)
kHeaderLength == 64

kLittleEndian == 67305985      \* 0x04030201

\* igl::Result as seen by the caller: a default-constructed Result is Ok, and
\* the functions below write to it only on the paths that call setResult.
OkResult == [code |-> "Ok", message |-> ""]

Failure(code, message) == [code |-> code, message |-> message]

\* canCreateInternal with the endianness test moved before the identifier test
canCreateInternal_EndiannessFirst(headerReader) ==
  LET header == headerReader.header IN
  IF headerReader.dataIsNull
    THEN [ok |-> FALSE, result |-> Failure("ArgumentInvalid", "Reader's data is nullptr.")]
  ELSE IF BigLess(headerReader.length, BigOf(kHeaderLength))
    THEN [ok |-> FALSE, result |-> Failure("ArgumentOutOfRange", "Not enough data for header.")]
  ELSE IF header.endianness # kLittleEndian
    THEN [ok |-> FALSE, result |-> Failure("InvalidOperation", "Big endian not supported.")]
  ELSE IF ~header.tagIsValid
    THEN [ok |-> FALSE, result |-> Failure("InvalidOperation", "Incorrect identifier.")]
  ELSE IF header.format = "Invalid"
    THEN [ok |-> FALSE, result |-> Failure("InvalidOperation", "Unrecognized texture format.")]
  ELSE IF header.numberOfFaces = 6 /\ header.numberOfArrayElements > 1
    THEN [ok |-> FALSE, result |-> Failure("InvalidOperation", "Texture cube arrays not supported.")]
  ELSE IF header.numberOfArrayElements > 1 /\ header.pixelDepth > 1
    THEN [ok |-> FALSE, result |-> Failure("InvalidOperation", "3D texture arrays not supported.")]
  ELSE [ok |-> TRUE, result |-> OkResult]

(***************************************************************************)
(* TextureLoaderFactory::canCreateInternal                                 *)
(***************************************************************************)
canCreateInternal(headerReader) ==
  LET header == headerReader.header IN
  IF headerReader.dataIsNull
    THEN [ok |-> FALSE, result |-> Failure("ArgumentInvalid", "Reader's data is nullptr.")]
  ELSE IF BigLess(headerReader.length, BigOf(kHeaderLength))
    THEN [ok |-> FALSE, result |-> Failure("ArgumentOutOfRange", "Not enough data for header.")]
  ELSE IF ~header.tagIsValid
    THEN [ok |-> FALSE, result |-> Failure("InvalidOperation", "Incorrect identifier.")]
  ELSE IF header.endianness # kLittleEndian
    THEN [ok |-> FALSE, result |-> Failure("InvalidOperation", "Big endian not supported.")]
  ELSE IF header.format = "Invalid"
    THEN [ok |-> FALSE, result |-> Failure("InvalidOperation", "Unrecognized texture format.")]
  ELSE IF header.numberOfFaces = 6 /\ header.numberOfArrayElements > 1
    THEN [ok |-> FALSE, result |-> Failure("InvalidOperation", "Texture cube arrays not supported.")]
  ELSE IF header.numberOfArrayElements > 1 /\ header.pixelDepth > 1
    THEN [ok |-> FALSE, result |-> Failure("InvalidOperation", "3D texture arrays not supported.")]
  ELSE [ok |-> TRUE, result |-> OkResult]

(***************************************************************************)
(* Header::formatProperties and igl::TextureFormatProperties: an           *)
(* uncompressed format of 1 or 4 bytes per pixel, or the Invalid sentinel. *)
(***************************************************************************)
bytesPerBlock(format) == IF format = "RGBA_UNorm8" THEN 4 ELSE 1

(***************************************************************************)
(* igl::TextureRangeDesc                                                   *)
(***************************************************************************)
\* validate: every dimension and count is at least 1
validate(range) ==
  /\ range.width >= 1 /\ range.height >= 1 /\ range.depth >= 1
  /\ range.numLayers >= 1 /\ range.numMipLevels >= 1 /\ range.numFaces >= 1

\* atMipLevel: one level, every axis halved mipLevel times, never below 1
atMipLevel(range, mipLevel) ==
  [range EXCEPT !.numMipLevels = 1,
                !.width = Max(range.width \div (2 ^ mipLevel), 1),
                !.height = Max(range.height \div (2 ^ mipLevel), 1),
                !.depth = Max(range.depth \div (2 ^ mipLevel), 1)]

\* atFace: one face
atFace(range, face) == [range EXCEPT !.numFaces = 1]

\* bytes of one layer of one face of a one-level range
getBytesPerLayer(format, range) ==
  BigMul(BigMul(BigMul(BigOf(bytesPerBlock(format)), range.width), range.height), range.depth)

RECURSIVE BytesOfLevels(_, _, _)
BytesOfLevels(format, range, n) ==
  IF n = 0 THEN BigOf(0)
  ELSE BigAdd(BytesOfLevels(format, range, n - 1),
              BigMul(BigMul(getBytesPerLayer(format, atMipLevel(range, n - 1)),
                            range.numFaces), range.numLayers))

\* getBytesPerRange: the bytes of every level, face and layer of the range (a size_t)
getBytesPerRange(format, range) == BytesOfLevels(format, range, range.numMipLevels)

(***************************************************************************)
(* DataReader: readAt<uint32_t>(offset) and at(offset).  The buffer holds  *)
(* the words reader.mem maps; a read of any other place, or one that is    *)
(* not wholly inside the buffer, yields a value the model does not fix.    *)
(***************************************************************************)
InBounds(rd, offset, size) == BigLeq(BigAdd(offset, BigOf(size)), rd.length)

readAt(rd, offset, unknown) ==
  IF offset \in DOMAIN rd.mem /\ InBounds(rd, offset, 4) THEN rd.mem[offset] ELSE unknown

(***************************************************************************)
(* TextureLoader::TextureLoader                                            *)
(***************************************************************************)
TextureType(range, desc) ==
  IF range.numFaces = 6 THEN "Cube"
  ELSE IF desc.depth > 1 THEN "ThreeD"
  ELSE IF desc.numLayers > 1 THEN "TwoDArray"
  ELSE "TwoD"

TextureLoader(range, format, mipLevelData) ==
  LET desc == [format |-> format, numMipLevels |-> range.numMipLevels,
               numLayers |-> range.numLayers, width |-> range.width,
               height |-> range.height, depth |-> range.depth]
  IN [mipLevelData |-> mipLevelData,
      shouldGenerateMipmaps |-> (range.numMipLevels = 0),
      desc |-> desc,
      type |-> TextureType(range, desc)]

NoLoader ==
  [mipLevelData |-> <<>>, shouldGenerateMipmaps |-> FALSE,
   desc |-> [format |-> "Invalid", numMipLevels |-> 0, numLayers |-> 0, width |-> 0,
             height |-> 0, depth |-> 0],
   type |-> "TwoD"]

(***************************************************************************)
(* TextureLoaderFactory::tryCreateInternal                                 *)
(***************************************************************************)
NoCreate(result, reads) ==
  [ok |-> FALSE, result |-> result, loader |-> NoLoader, reads |-> reads]

\* ImageSizeAccepted taking only the six-face size for a cube texture
ImageSizeAccepted_CubeSizeOnly(imageSize, expectedBytes, expectedCubeBytes, isCubeTexture) ==
  IF isCubeTexture THEN imageSize = expectedCubeBytes ELSE imageSize = expectedBytes

\* the test of a level's stored length word (line 227)
ImageSizeAccepted(imageSize, expectedBytes, expectedCubeBytes, isCubeTexture) ==
  ~(imageSize # expectedBytes /\ ~(isCubeTexture /\ imageSize = expectedCubeBytes))

\* MipLevelStart without the step over the length word
MipLevelStart_NoPrefix(offset) == offset

\* the place of a level's bytes: right after its length word (line 232)
MipLevelStart(offset) == U32Add(offset, BigOf(4))

\* MipLevelLength recording one face for a cube texture too
MipLevelLength_OneFace(isCubeTexture, expectedBytes, expectedCubeBytes) == ToU32(expectedBytes)

\* the length recorded for a level, and the step to the next level (lines 235-236)
MipLevelLength(isCubeTexture, expectedBytes, expectedCubeBytes) ==
  ToU32(IF isCubeTexture THEN expectedCubeBytes ELSE expectedBytes)

\* the loop over the mip levels (lines 222-237) and the return (line 239)
RECURSIVE WalkMipLevels(_, _, _, _, _, _, _)
WalkMipLevels(rd, range, mipLevel, offset, mipLevelData, reads, unknown) ==
  IF mipLevel >= range.numMipLevels
    THEN [ok |-> TRUE, result |-> OkResult,
          loader |-> TextureLoader(range, rd.header.format, mipLevelData),
          reads |-> reads]
  ELSE
    LET isCubeTexture == rd.header.numberOfFaces = 6
        imageSize == readAt(rd, offset, unknown)
        expectedBytes == getBytesPerRange(rd.header.format, atFace(atMipLevel(range, mipLevel), 0))
        expectedCubeBytes == BigMul(expectedBytes, 6)
        read == [offset |-> offset, imageSize |-> imageSize]
        length == MipLevelLength(isCubeTexture, expectedBytes, expectedCubeBytes)
        data == MipLevelStart(offset)
    IN IF ~ImageSizeAccepted(imageSize, expectedBytes, expectedCubeBytes, isCubeTexture)
         THEN NoCreate(Failure("InvalidOperation", "Unexpected image size."), Append(reads, read))
       ELSE WalkMipLevels(rd, range, mipLevel + 1, U32Add(data, length),
                          Append(mipLevelData, [data |-> data, length |-> length]),
                          Append(reads, read), unknown)

\* expectedLength (lines 206-208), a uint32_t
expectedLength(header, rangeBytes) ==
  U32Add(U32Add(U32Add(BigOf(kHeaderLength), header.bytesOfKeyValueData),
                ToU32(BigMul(BigOf(header.numberOfMipmapLevels), 4))),
         rangeBytes)

\* the normalised range (lines 185-191)
RangeOf(header) ==
  [numMipLevels |-> Max(header.numberOfMipmapLevels, 1),
   numLayers |-> Max(header.numberOfArrayElements, 1),
   numFaces |-> header.numberOfFaces,
   width |-> Max(header.pixelWidth, 1),
   height |-> Max(header.pixelHeight, 1),
   depth |-> Max(header.pixelDepth, 1)]

tryCreateInternal(rd, unknown) ==
  LET header == rd.header
      length == rd.length
      range == RangeOf(header)
      rangeBytesAsSizeT == getBytesPerRange(header.format, range)
      rangeBytes == ToU32(rangeBytesAsSizeT)
  IN
  IF BigLess(length, header.bytesOfKeyValueData)
    THEN NoCreate(Failure("InvalidOperation", "Length is too short."), <<>>)
  ELSE IF header.numberOfFaces # 1 /\ header.numberOfFaces # 6
    THEN NoCreate(Failure("InvalidOperation", "numberOfFaces must be 1 or 6."), <<>>)
  ELSE IF header.numberOfFaces = 6 /\ header.pixelDepth # 0
    THEN NoCreate(Failure("InvalidOperation", "pixelDepth must be 0 for cube textures."), <<>>)
  ELSE IF header.numberOfFaces = 6 /\ header.pixelWidth # header.pixelHeight
    THEN NoCreate(Failure("InvalidOperation",
                          "pixelWidth must match pixelHeight for cube textures."), <<>>)
  ELSE IF ~validate(range)
    THEN NoCreate(Failure("ArgumentOutOfRange", "range.validate()"), <<>>)
  ELSE IF BigLess(length, rangeBytesAsSizeT)
    THEN NoCreate(Failure("InvalidOperation", "Length is too short."), <<>>)
  ELSE IF BigLess(length, expectedLength(header, rangeBytes))
    THEN NoCreate(Failure("InvalidOperation", "Length shorter than expected length."), <<>>)
  ELSE WalkMipLevels(rd, range, 0,
                     U32Add(BigOf(kHeaderLength), header.bytesOfKeyValueData),
                     <<>>, <<>>, unknown)

(***************************************************************************)
(* TextureLoader::uploadInternal: the texture.upload calls, in order.      *)
(***************************************************************************)
RECURSIVE UploadLevels(_, _, _)
UploadLevels(loader, mipLevel, writes) ==
  IF mipLevel < loader.desc.numMipLevels /\ mipLevel < Len(loader.mipLevelData)
    THEN UploadLevels(loader, mipLevel + 1,
                      Append(writes, [mipLevel |-> mipLevel,
                                      data |-> loader.mipLevelData[mipLevel + 1].data]))
  ELSE writes

\* uploadInternal starting at level 1
uploadInternal_SkipBase(loader) == [writes |-> UploadLevels(loader, 1, <<>>), result |-> OkResult]

uploadInternal(loader) == [writes |-> UploadLevels(loader, 0, <<>>), result |-> OkResult]

(***************************************************************************)
(* TextureLoader::loadToExternalMemoryInternal                             *)
(***************************************************************************)
\* igl checked_memcpy_offset: copies only when the bytes fit the destination
checked_memcpy_offset(destinationSize, offset, count) ==
  BigLeq(BigAdd(offset, count), destinationSize)

RECURSIVE CopyLevels(_, _, _, _, _)
CopyLevels(mipLevelData, i, length, offset, writes) ==
  IF i > Len(mipLevelData) THEN writes
  ELSE LET level == mipLevelData[i]
           copied == checked_memcpy_offset(length, offset, level.length)
           entry == [offset |-> offset, length |-> level.length, copied |-> copied]
       IN CopyLevels(mipLevelData, i + 1, length, U32Add(offset, level.length),
                     Append(writes, entry))

\* outResult is an unnamed parameter: the caller's Result is left as it was
loadToExternalMemoryInternal(loader, length, outResult) ==
  [length |-> length, writes |-> CopyLevels(loader.mipLevelData, 1, length, BigOf(0), <<>>),
   result |-> outResult]

(***************************************************************************)
(* Input buffers.  A buffer is written level by level after the header and *)
(* the key/value bytes: a 4-byte length word, then the level's bytes.      *)
(***************************************************************************)
Formats == {"R_UNorm8", "RGBA_UNorm8"}

Dimensions == {<<0, 0>>, <<1, 1>>, <<2, 2>>, <<4, 2>>, <<4, 4>>, <<32768, 16384>>}

KeyValueLengths == {BigOf(0), BigOf(8), <<32768, 0>>}

\* what the writer stores as a level's length word
PrefixKinds == {"level", "face", "corrupt", "absent"}

\* the buffer's length: the end of the written bytes, or the start of the first
\* level, moved by a few bytes (cut short when negative, padded when positive)
LengthKinds == ({"end"} \X {-5, -4, -1, 0, 4}) \cup {<<"firstLevel", 4>>}

\* values of the words the writer did not store
UnknownWords == {BigOf(0), BigOf(1), BigOf(4)}

DestinationLengths == {BigOf(0), BigOf(4), BigOf(5), BigOf(20), <<65535, 65535>>}

IsU32(a) == a[1] >= 0 /\ a[1] < Base

FaceBytes(header, level) ==
  getBytesPerRange(header.format, atFace(atMipLevel(RangeOf(header), level), 0))

LevelBytes(header, level) ==
  BigMul(FaceBytes(header, level), IF header.numberOfFaces = 6 THEN 6 ELSE 1)

\* the exact place of level i's length word in a well-formed buffer
RECURSIVE PrefixOffset(_, _)
PrefixOffset(header, level) ==
  IF level = 0 THEN BigAdd(BigOf(kHeaderLength), header.bytesOfKeyValueData)
  ELSE BigAdd(BigAdd(PrefixOffset(header, level - 1), BigOf(4)), LevelBytes(header, level - 1))

StoredLevels(header) == Max(header.numberOfMipmapLevels, 1)

StoredWord(header, level, kind) ==
  IF kind = "face" THEN FaceBytes(header, level)
  ELSE IF kind = "corrupt" /\ level = StoredLevels(header) - 1
    THEN BigAdd(LevelBytes(header, level), BigOf(1))
  ELSE LevelBytes(header, level)

WrittenWords(header, kind) ==
  IF kind = "absent" THEN [o \in {} |-> BigOf(0)]
  ELSE LET levels == 0 .. (StoredLevels(header) - 1)
           places == {PrefixOffset(header, l) : l \in levels}
       IN [o \in places |->
             StoredWord(header, CHOOSE l \in levels : PrefixOffset(header, l) = o, kind)]

WrittenLength(header, lengthKind) ==
  BigAdd(PrefixOffset(header, IF lengthKind[1] = "end" THEN StoredLevels(header) ELSE 0),
         BigOf(lengthKind[2]))

Headers ==
  [tagIsValid : BOOLEAN, endianness : {kLittleEndian, 16909060},
   format : Formats \cup {"Invalid"},
   pixelWidth : {d[1] : d \in Dimensions}, pixelHeight : {d[2] : d \in Dimensions},
   pixelDepth : 0 .. 2,
   numberOfArrayElements : {0, 2}, numberOfFaces : {1, 2, 6},
   numberOfMipmapLevels : 0 .. MaxMipmapLevels,
   bytesOfKeyValueData : KeyValueLengths]

\* headers whose identifier, endianness and format are good, in every geometry
LayoutHeaders ==
  {h \in Headers : /\ h.tagIsValid /\ h.endianness = kLittleEndian /\ h.format \in Formats
                   /\ <<h.pixelWidth, h.pixelHeight>> \in Dimensions}

\* headers of one small geometry, with every defect recognition looks for
RecognitionHeaders ==
  {h \in Headers : /\ h.pixelWidth = 1 /\ h.pixelHeight = 1 /\ h.numberOfMipmapLevels = 1
                   /\ h.bytesOfKeyValueData = BigOf(0) /\ h.numberOfFaces # 2}

NotCalled == [called |-> FALSE, ok |-> FALSE, result |-> OkResult]

InitLayout ==
  \E h \in LayoutHeaders, kind \in PrefixKinds, lengthKind \in LengthKinds :
    /\ IsU32(WrittenLength(h, lengthKind))
    /\ reader = [dataIsNull |-> FALSE, length |-> WrittenLength(h, lengthKind),
                 header |-> h, mem |-> WrittenWords(h, kind)]

InitRecognition ==
  \E h \in RecognitionHeaders, isNull \in BOOLEAN,
     length \in {BigOf(0), BigOf(kHeaderLength - 1), BigOf(kHeaderLength), BigOf(80)} :
    reader = [dataIsNull |-> isNull, length |-> length, header |-> h,
              mem |-> WrittenWords(h, "level")]

Init ==
  /\ InitLayout \/ InitRecognition
  /\ recognized = NotCalled
  /\ created = [called |-> FALSE, ok |-> FALSE, result |-> OkResult, loader |-> NoLoader,
                reads |-> <<>>]
  /\ uploadLog = [count |-> 0, writes |-> <<>>, result |-> OkResult]
  /\ copyLog = [called |-> FALSE, length |-> BigOf(0), writes |-> <<>>, result |-> OkResult]
  /\ calls = 0

(***************************************************************************)
(* Operations.  The caller recognises the header, then constructs, then    *)
(* uploads or copies any number of times.                                  *)
(***************************************************************************)
CanCreate ==
  /\ ~recognized.called
  /\ recognized' = [called |-> TRUE] @@ canCreateInternal(reader)
  /\ UNCHANGED <<reader, created, uploadLog, copyLog, calls>>

TryCreate ==
  /\ recognized.called /\ recognized.ok /\ ~created.called
  /\ \E unknown \in UnknownWords :
       created' = [called |-> TRUE] @@ tryCreateInternal(reader, unknown)
  /\ UNCHANGED <<reader, recognized, uploadLog, copyLog, calls>>

Upload ==
  /\ created.called /\ created.ok /\ calls < MaxCalls
  /\ uploadLog' = [count |-> uploadLog.count + 1] @@ uploadInternal(created.loader)
  /\ calls' = calls + 1
  /\ UNCHANGED <<reader, recognized, created, copyLog>>

LoadToExternalMemory ==
  /\ created.called /\ created.ok /\ calls < MaxCalls
  /\ \E length \in DestinationLengths :
       copyLog' = [called |-> TRUE] @@
                    loadToExternalMemoryInternal(created.loader, length, OkResult)
  /\ calls' = calls + 1
  /\ UNCHANGED <<reader, recognized, created, uploadLog>>

Next == CanCreate \/ TryCreate \/ Upload \/ LoadToExternalMemory

Spec == Init /\ [][Next]_vars

(***************************************************************************)
(* Properties.                                                             *)
(***************************************************************************)
Header == reader.header

Spans == created.loader.mipLevelData

\* the seven checks of recognition, in the order of the specification
RecognitionChecks ==
  <<reader.dataIsNull,
    BigLess(reader.length, BigOf(kHeaderLength)),
    ~Header.tagIsValid,
    Header.endianness # kLittleEndian,
    Header.format = "Invalid",
    Header.numberOfFaces = 6 /\ Header.numberOfArrayElements > 1,
    Header.numberOfArrayElements > 1 /\ Header.pixelDepth > 1>>

RecognitionFailures ==
  <<Failure("ArgumentInvalid", "Reader's data is nullptr."),
    Failure("ArgumentOutOfRange", "Not enough data for header."),
    Failure("InvalidOperation", "Incorrect identifier."),
    Failure("InvalidOperation", "Big endian not supported."),
    Failure("InvalidOperation", "Unrecognized texture format."),
    Failure("InvalidOperation", "Texture cube arrays not supported."),
    Failure("InvalidOperation", "3D texture arrays not supported.")>>

\* C1: recognition reports the first failing check of the seven, in their fixed
\* order, with that check's code, and succeeds exactly when none of them fails.
C1_RecognitionOrder ==
  recognized.called =>
    /\ recognized.ok <=> (\A i \in 1 .. 7 : ~RecognitionChecks[i])
    /\ \A i \in 1 .. 7 :
         (RecognitionChecks[i] /\ \A j \in 1 .. (i - 1) : ~RecognitionChecks[j])
           => ~recognized.ok /\ recognized.result = RecognitionFailures[i]

\* recognition was run on a header with two defects and reported the earlier one
C1_Witness ==
  /\ recognized.called
  /\ ~Header.tagIsValid /\ Header.endianness # kLittleEndian
  /\ ~reader.dataIsNull /\ ~BigLess(reader.length, BigOf(kHeaderLength))
  /\ recognized.result.message = "Incorrect identifier."

\* C2: a Loader is returned => (numberOfMipmapLevels = 0 <=> shouldGenerateMipmaps())
\* and a field of 0 gives exactly one span.
C2_MipmapFlag ==
  (created.called /\ created.ok) =>
    /\ (Header.numberOfMipmapLevels = 0) <=> created.loader.shouldGenerateMipmaps
    /\ Header.numberOfMipmapLevels = 0 => Len(Spans) = 1

\* C3: every span of a returned Loader lies inside the buffer:
\* 0 <= offset < L and offset + length <= L.
C3_SpansInsideBuffer ==
  (created.called /\ created.ok) =>
    \A i \in 1 .. Len(Spans) :
      /\ BigLess(Spans[i].data, reader.length)
      /\ BigLeq(BigAdd(Spans[i].data, Spans[i].length), reader.length)

\* the sum of the byte sizes of levels 0 .. n-1
RECURSIVE SumOfLevels(_)
SumOfLevels(n) == IF n = 0 THEN BigOf(0) ELSE BigAdd(SumOfLevels(n - 1), LevelBytes(Header, n - 1))

\* the exact, non-wrapping
\* headerLength + bytesOfKeyValueData + 4 * numberOfMipmapLevels + pixel bytes
ExactLength ==
  BigAdd(BigAdd(BigAdd(BigOf(kHeaderLength), Header.bytesOfKeyValueData),
                BigOf(4 * Header.numberOfMipmapLevels)),
         getBytesPerRange(Header.format, RangeOf(Header)))

\* where the claim places level i's bytes (i from 0)
ClaimedStart(i) ==
  BigAdd(BigAdd(BigAdd(BigOf(kHeaderLength), Header.bytesOfKeyValueData), BigOf(4 * (i + 1))),
         SumOfLevels(i))

\* a recognised one-face buffer of N >= 1 levels, long enough, with every
\* level's length word in its place and equal to the level's size
ValidNonCubeBuffer ==
  /\ recognized.called /\ recognized.ok
  /\ Header.numberOfFaces = 1 /\ Header.numberOfMipmapLevels >= 1
  /\ validate(RangeOf(Header))
  /\ BigLeq(ExactLength, reader.length)
  /\ \A i \in 0 .. (Header.numberOfMipmapLevels - 1) :
       LET place == BigAdd(ClaimedStart(i), BigOf(-4))
       IN place \in DOMAIN reader.mem /\ reader.mem[place] = LevelBytes(Header, i)

\* C4: a valid non-cube buffer of N >= 1 levels gives a Loader with N spans,
\* span i at headerLength + bytesOfKeyValueData + 4*(i+1) + (sizes of levels
\* 0..i-1) with the size of level i, so that the spans, one after the other, are
\* the pixel data without the length words.
C4_SpanLayout ==
  (created.called /\ ValidNonCubeBuffer) =>
    /\ created.ok
    /\ Len(Spans) = Header.numberOfMipmapLevels
    /\ \A i \in 1 .. Len(Spans) :
         /\ Spans[i].data = ClaimedStart(i - 1)
         /\ Spans[i].length = LevelBytes(Header, i - 1)
    /\ BigAdd(Spans[Len(Spans)].data, Spans[Len(Spans)].length) = ExactLength

\* a three-level buffer was laid out
C4_Witness ==
  /\ created.called /\ ValidNonCubeBuffer /\ created.ok
  /\ Header.numberOfMipmapLevels = 3 /\ Len(Spans) = 3
  /\ Spans[1].length # Spans[2].length

\* the walk went past its k-th read (k from 1)
Accepted(k) == k < Len(created.reads) \/ created.ok

\* C5 as stated: in a cube texture a length word of 6 x the face size is
\* accepted and one of exactly 1 x the face size makes construction fail.
C5_FaceSizeRejected ==
  (created.called /\ Header.numberOfFaces = 6) =>
    \A k \in 1 .. Len(created.reads) :
      /\ created.reads[k].imageSize = BigMul(FaceBytes(Header, k - 1), 6) => Accepted(k)
      /\ created.reads[k].imageSize = FaceBytes(Header, k - 1) => ~created.ok

\* C5 amended: in a cube texture a level is accepted exactly when its length
\* word is 6 x or 1 x the face size, and the span recorded for it is 6 x the face
\* size in both cases.
C5_CubeSizesAccepted ==
  (created.called /\ Header.numberOfFaces = 6) =>
    /\ \A k \in 1 .. Len(created.reads) :
         Accepted(k) <=> created.reads[k].imageSize \in
                           {FaceBytes(Header, k - 1), BigMul(FaceBytes(Header, k - 1), 6)}
    /\ \A i \in 1 .. Len(Spans) : Spans[i].length = BigMul(FaceBytes(Header, i - 1), 6)

\* a cube Loader was built from a level whose length word is the face size
C5_Witness ==
  /\ created.called /\ created.ok /\ Header.numberOfFaces = 6
  /\ \E k \in 1 .. Len(created.reads) :
       created.reads[k].imageSize = FaceBytes(Header, k - 1)

\* the checks of construction that come before the expected-length check
PassesEarlierChecks ==
  /\ ~BigLess(reader.length, Header.bytesOfKeyValueData)
  /\ Header.numberOfFaces \in {1, 6}
  /\ Header.numberOfFaces = 6 => Header.pixelDepth = 0 /\ Header.pixelWidth = Header.pixelHeight
  /\ validate(RangeOf(Header))
  /\ ~BigLess(reader.length, getBytesPerRange(Header.format, RangeOf(Header)))

\* C6: a buffer shorter than the exact sum headerLength + bytesOfKeyValueData +
\* 4 * numberOfMipmapLevels + pixel bytes fails with InvalidOperation and gives
\* no Loader.
C6_ShortBufferFails ==
  (created.called /\ PassesEarlierChecks /\ BigLess(reader.length, ExactLength)) =>
    ~created.ok /\ created.result.code = "InvalidOperation"

\* C7: the copy writes the spans in level order at offsets 0, len0, len0+len1,
\* ...; when a span does not fit the destination the failure is reported as
\* out of range through the result, and nothing is written at or past the
\* destination's end.
C7_CopyReportsOverflow ==
  copyLog.called =>
    /\ \A i \in 1 .. Len(copyLog.writes) :
         copyLog.writes[i].copied =>
           BigLeq(BigAdd(copyLog.writes[i].offset, copyLog.writes[i].length), copyLog.length)
    /\ (\E i \in 1 .. Len(copyLog.writes) : ~copyLog.writes[i].copied)
         => copyLog.result.code = "ArgumentOutOfRange"

\* C8 as stated: the span of an accepted level has the length the buffer
\* stores for it, and the next length word is that many bytes after the span's
\* start.
C8_StoredLengthRecorded ==
  created.called =>
    /\ created.ok => \A i \in 1 .. Len(Spans) : Spans[i].length = created.reads[i].imageSize
    /\ \A k \in 1 .. (Len(created.reads) - 1) :
         created.reads[k + 1].offset =
           U32Add(MipLevelStart(created.reads[k].offset), created.reads[k].imageSize)

\* C8 amended: the span of an accepted level has the level's computed size (the
\* face size, or 6 x the face size in a cube texture), which is the stored
\* length word unless a cube level stores the face size; the next length word is
\* that many bytes after the span's start.
C8_ComputedLengthRecorded ==
  created.called =>
    /\ created.ok =>
         \A i \in 1 .. Len(Spans) :
           /\ Spans[i].length = ToU32(LevelBytes(Header, i - 1))
           /\ Spans[i].data = MipLevelStart(created.reads[i].offset)
           /\ Spans[i].length # created.reads[i].imageSize =>
                /\ Header.numberOfFaces = 6
                /\ created.reads[i].imageSize = FaceBytes(Header, i - 1)
    /\ \A k \in 1 .. (Len(created.reads) - 1) :
         created.reads[k + 1].offset =
           U32Add(MipLevelStart(created.reads[k].offset), ToU32(LevelBytes(Header, k - 1)))

\* a cube texture of two levels storing face sizes was walked to the end
C8_Witness ==
  /\ created.called /\ created.ok /\ Header.numberOfFaces = 6 /\ Len(Spans) >= 2
  /\ Spans[1].length # created.reads[1].imageSize

\* the writes an upload is to issue: level i with span i's pointer, ascending
ExpectedUploads(loader) ==
  [i \in 1 .. Min(loader.desc.numMipLevels, Len(loader.mipLevelData)) |->
     [mipLevel |-> i - 1, data |-> loader.mipLevelData[i].data]]

\* C9: uploads and copies leave the Loader's spans and flag as constructed, and
\* every upload issues one write per level 0 .. min(descriptor mip count, span
\* count) - 1, ascending, each with that level's span pointer.
C9_LoaderReusable ==
  [][(created.called /\ created.ok) =>
       /\ created'.loader = created.loader
       /\ uploadLog'.count # uploadLog.count =>
            uploadLog'.writes = ExpectedUploads(created.loader)]_vars

\* a Loader of several levels was uploaded twice
C9_Witness ==
  /\ created.ok /\ uploadLog.count = 2 /\ Len(uploadLog.writes) >= 2

\* C10: every 4-byte length word the walk reads lies inside the buffer.
C10_PrefixReadsInsideBuffer ==
  created.called =>
    \A k \in 1 .. Len(created.reads) : InBounds(reader, created.reads[k].offset, 4)

====
